---- MODULE Spec2Model ----
(***************************************************************************)
(* lazycpp: lazily evaluated values.                                       *)
(*                                                                         *)
(*   detail::LazyConcept<T>   the abstract interface                       *)
(*   detail::NotLazy<T>       holds a plain value, always evaluated        *)
(*   detail::VariantLazy<T>   std::variant<T, std::function<T()>>          *)
(*   SharedLazy<T>            read-only handle, const shared_ptr<concept>  *)
(*                                                                         *)
(* The model is a heap of LazyConcept objects (slots of Inst) and a set of *)
(* SharedLazy handles (slots of Handles) pointing into it, driven by a     *)
(* single thread of control.  T is int, as in the tests.                   *)
(***************************************************************************)
EXTENDS Integers, FiniteSets

\* ---------------------------------------------------------------- bounds
MaxInst == 2        \* object slots
MaxHandles == 2     \* SharedLazy slots
MaxFails == 1       \* how many evaluator calls may throw
MaxThreads == 2     \* threads calling into one object at once

Inst == 1..MaxInst
Handles == 1..MaxHandles
Threads == 1..MaxThreads

\* ------------------------------------------------------- values and kinds
\* an empty std::shared_ptr / an unused handle slot
Null == 0
\* filler for "no int here": the inactive value alternative, a void return
NoValue == 0
\* filler for the inactive evaluator alternative of the variant
NoFn == "none"
\* the ints callers pass to NotLazy(t) and to operator=
Values == {3, 5}

\* static int build_int() { return 3; }
build_int == 3

\* The evaluators callers hand to VariantLazy:
\*   "build_int"  the free function of the tests
\*   "counter"    the lambda [&counter]() { return ++counter; } of the tests,
\*                and with it any callable with a side effect: a call may
\*                also end in a throw, before counter is touched
Producers == {"build_int", "counter"}

\* Outcomes of one call evaluator(): whether it threw, what it returned and
\* the captured counter afterwards.  canThrow is FALSE once MaxFails calls
\* have thrown.
Invoke(p, ctr, canThrow) ==
    IF p = "build_int"
    THEN {[threw |-> FALSE, ret |-> build_int, counter |-> ctr]}
    ELSE {[threw |-> FALSE, ret |-> ctr + 1, counter |-> ctr + 1]}
         \cup (IF canThrow
               THEN {[threw |-> TRUE, ret |-> NoValue, counter |-> ctr]}
               ELSE {})

\* ------------------------------------------------------------------ state
VARIABLES
    kind,       \* kind[i]: dynamic type of object i: "none", "NotLazy", "VariantLazy"
    nstorage,   \* NotLazy::storage of object i (a T)
    storage,    \* VariantLazy::storage of object i (the variant)
    pimpl,      \* SharedLazy::pimpl of handle h: an object, or Null (no handle)
    group,      \* history: the handle that h was copied from, through any
                \* number of copies (h itself when constructed from a pointer)
    counter,    \* the int captured by reference by the counting lambdas
    last,       \* the value-returning call made last and what came back
    calls,      \* history: evaluator invocations made by object i
    fails,      \* history: how many of them threw
    throws,     \* history: evaluator calls that threw, over all objects
    origin,     \* history: how object i was constructed
    initial,    \* history: the value a NotLazy was constructed with
    assigned,   \* history: the value of the last operator= on i, if any
    produced,   \* history: what i's evaluator returned when it returned
    ptr,        \* ptr[i]: the caller still holds a shared_ptr to object i
    use_count,  \* use_count[i]: the owner count in the control block of i
    thread,     \* thread[t]: where thread t stands inside do_deref
    overlapped  \* history: a thread found the tag unevaluated while another
                \* was between its own test of the tag and its store

\* the variables of the ownership and of the threaded specification
own == <<ptr, use_count>>
conc == <<thread, overlapped>>

vars == <<kind, nstorage, storage, pimpl, group, counter, last,
          calls, fails, throws, origin, initial, assigned, produced,
          ptr, use_count, thread, overlapped>>

\* std::variant<value_type, evaluator_type> holding the evaluator
HoldsEvaluator(p) == [alt |-> "evaluator", val |-> NoValue, fn |-> p]
\* an assignment that stores the value without destroying the evaluator
VariantAssign_keeps_fn(s, v) == [alt |-> "value", val |-> v, fn |-> s.fn]
\* storage = <a value_type>: the converting assignment selects value_type,
\* destroying an evaluator that was held
VariantAssign(s, v) == [alt |-> "value", val |-> v, fn |-> NoFn]
\* std::holds_alternative<value_type>(storage)
holds_alternative_value(s) == s.alt = "value"
\* std::get<value_type>(storage)
get_value_alt(s) == s.val
\* std::get<evaluator_type>(storage)
get_evaluator_alt(s) == s.fn

\* a variant slot of a heap cell that holds no VariantLazy
NoStorage == [alt |-> "none", val |-> NoValue, fn |-> NoFn]

\* last: op is "get_value" (operator* included), "isEvaluated" or "none";
\* inst the object reached; via whether the call was made on the "object"
\* or through a "handle"; threw whether the call left by an exception;
\* ret the int returned; flag the bool returned; invoked whether the call
\* ran the evaluator
NoCall == [op |-> "none", inst |-> Null, via |-> "none", threw |-> FALSE,
           ret |-> NoValue, flag |-> FALSE, invoked |-> FALSE]

\* a thread that is not inside a call: at is "idle", after a test of the tag
\* "invoke", with the evaluator's result in hand "store", after the store
\* "return", after the call "done"; obj the object, tmp the result
Idle == [at |-> "idle", obj |-> Null, tmp |-> NoValue]

Init ==
    /\ kind = [i \in Inst |-> "none"]
    /\ nstorage = [i \in Inst |-> NoValue]
    /\ storage = [i \in Inst |-> NoStorage]
    /\ pimpl = [h \in Handles |-> Null]
    /\ group = [h \in Handles |-> Null]
    /\ counter = 0
    /\ last = NoCall
    /\ calls = [i \in Inst |-> 0]
    /\ fails = [i \in Inst |-> 0]
    /\ throws = 0
    /\ origin = [i \in Inst |-> "none"]
    /\ initial = [i \in Inst |-> NoValue]
    /\ assigned = [i \in Inst |-> NoValue]
    /\ produced = [i \in Inst |-> NoValue]
    /\ ptr = [i \in Inst |-> FALSE]
    /\ use_count = [i \in Inst |-> 0]
    /\ thread = [t \in Threads |-> Idle]
    /\ overlapped = FALSE


\* ------------------------------------------------ the virtual functions
\* NotLazy::isEvaluated that reports the object as not evaluated
NotLazy_isEvaluated_false(v) == FALSE

\* NotLazy::isEvaluated
NotLazy_isEvaluated(v) == TRUE
\* VariantLazy::isEvaluated
VariantLazy_isEvaluated(s) == holds_alternative_value(s)

\* Outcome of a do_deref: the object's storage afterwards, the captured
\* counter afterwards, whether the call threw, the int the returned
\* reference designates, and whether the evaluator was called.
\* NotLazy::do_deref (both overloads): return storage
NotLazy_do_deref(v, ctr) ==
    {[storage |-> v, counter |-> ctr, threw |-> FALSE, ret |-> v, invoked |-> FALSE]}

\* VariantLazy::do_deref that value-initialises storage before it calls the
\* evaluator, so that a throw leaves a value behind
VariantLazy_do_deref_clears_first(s, ctr, canThrow) ==
    IF ~VariantLazy_isEvaluated(s)
    THEN { IF o.threw
           THEN [storage |-> VariantAssign(s, NoValue), counter |-> o.counter,
                 threw |-> TRUE, ret |-> NoValue, invoked |-> TRUE]
           ELSE [storage |-> VariantAssign(s, o.ret), counter |-> o.counter,
                 threw |-> FALSE, ret |-> o.ret, invoked |-> TRUE]
           : o \in Invoke(get_evaluator_alt(s), ctr, canThrow) }
    ELSE {[storage |-> s, counter |-> ctr, threw |-> FALSE,
           ret |-> get_value_alt(s), invoked |-> FALSE]}

\* VariantLazy::do_deref without the isEvaluated() test: every call computes
\* a fresh value, as the counting lambda would, and stores it
VariantLazy_do_deref_recompute(s, ctr, canThrow) ==
    {[storage |-> VariantAssign(s, ctr + 1), counter |-> ctr + 1,
      threw |-> FALSE, ret |-> ctr + 1, invoked |-> TRUE]}

\* VariantLazy::do_deref without the assignment to storage: return evaluator()
VariantLazy_do_deref_nocache(s, ctr, canThrow) ==
    IF ~VariantLazy_isEvaluated(s)
    THEN { [storage |-> s, counter |-> o.counter, threw |-> o.threw,
            ret |-> o.ret, invoked |-> TRUE]
           : o \in Invoke(get_evaluator_alt(s), ctr, canThrow) }
    ELSE {[storage |-> s, counter |-> ctr, threw |-> FALSE,
           ret |-> get_value_alt(s), invoked |-> FALSE]}

\* VariantLazy::do_deref: an evaluator that throws leaves before the
\* assignment to storage is reached
VariantLazy_do_deref(s, ctr, canThrow) ==
    IF ~VariantLazy_isEvaluated(s)
    THEN { IF o.threw
           THEN [storage |-> s, counter |-> o.counter, threw |-> TRUE,
                 ret |-> NoValue, invoked |-> TRUE]
           ELSE [storage |-> VariantAssign(s, o.ret), counter |-> o.counter,
                 threw |-> FALSE,
                 ret |-> get_value_alt(VariantAssign(s, o.ret)), invoked |-> TRUE]
           : o \in Invoke(get_evaluator_alt(s), ctr, canThrow) }
    ELSE {[storage |-> s, counter |-> ctr, threw |-> FALSE,
           ret |-> get_value_alt(s), invoked |-> FALSE]}

\* VariantLazy::do_deref const: the same statements, on the mutable member
VariantLazy_do_deref_const(s, ctr, canThrow) ==
    IF ~VariantLazy_isEvaluated(s)
    THEN { IF o.threw
           THEN [storage |-> s, counter |-> o.counter, threw |-> TRUE,
                 ret |-> NoValue, invoked |-> TRUE]
           ELSE [storage |-> VariantAssign(s, o.ret), counter |-> o.counter,
                 threw |-> FALSE,
                 ret |-> get_value_alt(VariantAssign(s, o.ret)), invoked |-> TRUE]
           : o \in Invoke(get_evaluator_alt(s), ctr, canThrow) }
    ELSE {[storage |-> s, counter |-> ctr, threw |-> FALSE,
           ret |-> get_value_alt(s), invoked |-> FALSE]}

\* NotLazy::do_reassign (both overloads): storage = value
NotLazy_do_reassign(old, v) == v
\* VariantLazy::do_reassign that assigns only over a value already held
VariantLazy_do_reassign_if_evaluated(s, v) ==
    IF VariantLazy_isEvaluated(s) THEN VariantAssign(s, v) ELSE s

\* VariantLazy::do_reassign that writes the value next to a pending
\* evaluator and leaves the tag alone
VariantLazy_do_reassign_keeps_evaluator(s, v) ==
    IF VariantLazy_isEvaluated(s) THEN VariantAssign(s, v) ELSE [s EXCEPT !.val = v]

\* VariantLazy::do_reassign that makes the object lazy again:
\* storage = evaluator_type(build_int)
VariantLazy_do_reassign_resets(s, v) == HoldsEvaluator("build_int")

\* VariantLazy::do_reassign (both overloads): storage = value
VariantLazy_do_reassign(s, v) == VariantAssign(s, v)

\* ---------------------------------------------- the LazyConcept interface
\* operator* and get_value, each const and non-const
Paths == {"operator*", "operator* const", "get_value", "get_value const"}
IsConstPath(path) == path \in {"operator* const", "get_value const"}

\* isEvaluated() of object i, by virtual dispatch
isEvaluated(i) ==
    IF kind[i] = "NotLazy" THEN NotLazy_isEvaluated(nstorage[i])
    ELSE VariantLazy_isEvaluated(storage[i])

\* what get_value() of object i would return without evaluating: only
\* meaningful when isEvaluated(i)
Held(i) == IF kind[i] = "NotLazy" THEN nstorage[i] ELSE get_value_alt(storage[i])

\* the do_deref that the call path reaches on object i, by virtual dispatch.
\* The operator*/get_value overloads of LazyConcept only forward.
do_deref(i, path) ==
    IF kind[i] = "NotLazy"
    THEN NotLazy_do_deref(nstorage[i], counter)
    ELSE IF IsConstPath(path)
         THEN VariantLazy_do_deref_const(storage[i], counter, throws < MaxFails)
         ELSE VariantLazy_do_deref(storage[i], counter, throws < MaxFails)

\* One completed or thrown call of operator*/get_value on object i, made
\* directly or through a handle.  Everything but pimpl.
Deref(i, path, via) ==
    \E o \in do_deref(i, path) :
        /\ nstorage' = IF kind[i] = "NotLazy"
                       THEN [nstorage EXCEPT ![i] = o.storage] ELSE nstorage
        /\ storage' = IF kind[i] = "VariantLazy"
                      THEN [storage EXCEPT ![i] = o.storage] ELSE storage
        /\ counter' = o.counter
        /\ last' = [op |-> "get_value", inst |-> i, via |-> via,
                    threw |-> o.threw, ret |-> o.ret, flag |-> FALSE,
                    invoked |-> o.invoked]
        /\ calls' = [calls EXCEPT ![i] = IF o.invoked THEN @ + 1 ELSE @]
        /\ fails' = [fails EXCEPT ![i] = IF o.threw THEN @ + 1 ELSE @]
        /\ throws' = IF o.threw THEN throws + 1 ELSE throws
        /\ produced' = [produced EXCEPT
                          ![i] = IF o.invoked /\ ~o.threw THEN o.ret ELSE @]
        /\ UNCHANGED <<kind, origin, initial, assigned>>

\* ------------------------------------------------------------ operations
\* Objects and handles take the lowest free slot: slots are only names.
FreeInst(i) == kind[i] = "none" /\ \A k \in 1..(i - 1) : kind[k] # "none"
FreeHandle(h) == pimpl[h] = Null /\ \A k \in 1..(h - 1) : pimpl[k] # Null

\* NotLazy(value_type t) : storage(std::move(t))
NotLazy(i, t) ==
    /\ FreeInst(i)
    /\ kind' = [kind EXCEPT ![i] = "NotLazy"]
    /\ nstorage' = [nstorage EXCEPT ![i] = t]
    /\ origin' = [origin EXCEPT ![i] = "value"]
    /\ initial' = [initial EXCEPT ![i] = t]
    /\ last' = NoCall
    /\ UNCHANGED <<storage, pimpl, group, counter, calls, fails, throws, assigned, produced>>

\* a constructor that runs the evaluator at once: storage(evaluator())
VariantLazy_eager(i, evaluator) ==
    /\ FreeInst(i)
    /\ \E o \in Invoke(evaluator, counter, FALSE) :
          /\ storage' = [storage EXCEPT ![i] = VariantAssign(@, o.ret)]
          /\ counter' = o.counter
          /\ produced' = [produced EXCEPT ![i] = o.ret]
    /\ kind' = [kind EXCEPT ![i] = "VariantLazy"]
    /\ calls' = [calls EXCEPT ![i] = 1]
    /\ origin' = [origin EXCEPT ![i] = "evaluator"]
    /\ last' = NoCall
    /\ UNCHANGED <<nstorage, pimpl, group, fails, throws, initial, assigned>>

\* VariantLazy(evaluator_type evaluator) : storage(std::move(evaluator))
VariantLazy(i, evaluator) ==
    /\ FreeInst(i)
    /\ kind' = [kind EXCEPT ![i] = "VariantLazy"]
    /\ storage' = [storage EXCEPT ![i] = HoldsEvaluator(evaluator)]
    /\ origin' = [origin EXCEPT ![i] = "evaluator"]
    /\ last' = NoCall
    /\ UNCHANGED <<nstorage, pimpl, group, counter, calls, fails, throws, initial, assigned, produced>>

\* a copy constructor that reads the value of the source, evaluating it
\* first when it is unevaluated, and stores that value in the copy
VariantLazyCopy_forcing(i, j) ==
    /\ kind[i] = "VariantLazy"
    /\ FreeInst(j)
    /\ \E o \in VariantLazy_do_deref(storage[i], counter, FALSE) :
          /\ storage' = [storage EXCEPT ![i] = o.storage, ![j] = o.storage]
          /\ counter' = o.counter
          /\ calls' = [calls EXCEPT ![i] = IF o.invoked THEN @ + 1 ELSE @]
          /\ produced' = [produced EXCEPT ![i] = IF o.invoked THEN o.ret ELSE @]
    /\ kind' = [kind EXCEPT ![j] = "VariantLazy"]
    /\ origin' = [origin EXCEPT ![j] = "copy"]
    /\ last' = NoCall
    /\ UNCHANGED <<nstorage, pimpl, group, fails, throws, initial, assigned>>

\* auto copy = myLazyInt;  the implicit copy constructor copies the variant
VariantLazyCopy(i, j) ==
    /\ kind[i] = "VariantLazy"
    /\ FreeInst(j)
    /\ kind' = [kind EXCEPT ![j] = "VariantLazy"]
    /\ storage' = [storage EXCEPT ![j] = storage[i]]
    /\ origin' = [origin EXCEPT ![j] = "copy"]
    /\ last' = NoCall
    /\ UNCHANGED <<nstorage, pimpl, group, counter, calls, fails, throws, initial, assigned, produced>>

\* LazyConcept::operator* / LazyConcept::get_value on object i
get_value(i, path) ==
    /\ kind[i] # "none"
    /\ Deref(i, path, "object")
    /\ UNCHANGED <<pimpl, group>>

\* a call of isEvaluated() on object i
isEvaluatedCall(i) ==
    /\ kind[i] # "none"
    /\ last' = [NoCall EXCEPT !.op = "isEvaluated", !.inst = i,
                              !.via = "object", !.flag = isEvaluated(i)]
    /\ UNCHANGED <<kind, nstorage, storage, pimpl, group, counter, calls, fails, throws,
                   origin, initial, assigned, produced>>

\* LazyConcept::operator=(value_type&) / (value_type&&): do_reassign(other)
reassign(i, other) ==
    /\ kind[i] # "none"
    /\ nstorage' = IF kind[i] = "NotLazy"
                   THEN [nstorage EXCEPT ![i] = NotLazy_do_reassign(@, other)]
                   ELSE nstorage
    /\ storage' = IF kind[i] = "VariantLazy"
                  THEN [storage EXCEPT ![i] = VariantLazy_do_reassign(@, other)]
                  ELSE storage
    /\ assigned' = [assigned EXCEPT ![i] = other]
    /\ last' = NoCall
    /\ UNCHANGED <<kind, pimpl, group, counter, calls, fails, throws, origin, initial, produced>>

\* SharedLazy(ptr_type ptr) : pimpl(std::move(ptr)), ptr owning object i
SharedLazy(h, i) ==
    /\ FreeHandle(h)
    /\ kind[i] # "none"
    /\ pimpl' = [pimpl EXCEPT ![h] = i]
    /\ group' = [group EXCEPT ![h] = h]
    /\ last' = NoCall
    /\ UNCHANGED <<kind, nstorage, storage, counter, calls, fails, throws,
                   origin, initial, assigned, produced>>

\* a copy constructor that clones the object instead of sharing it
SharedLazyCopy_deep(h, h2) ==
    /\ pimpl[h] # Null
    /\ FreeHandle(h2)
    /\ \E j \in Inst :
          /\ FreeInst(j)
          /\ kind' = [kind EXCEPT ![j] = kind[pimpl[h]]]
          /\ nstorage' = [nstorage EXCEPT ![j] = nstorage[pimpl[h]]]
          /\ storage' = [storage EXCEPT ![j] = storage[pimpl[h]]]
          /\ origin' = [origin EXCEPT ![j] = "copy"]
          /\ initial' = [initial EXCEPT ![j] = initial[pimpl[h]]]
          /\ pimpl' = [pimpl EXCEPT ![h2] = j]
    /\ group' = [group EXCEPT ![h2] = group[h]]
    /\ last' = NoCall
    /\ UNCHANGED <<counter, calls, fails, throws, assigned, produced>>

\* auto copy1 = myNonLazyInt;  the implicit copy constructor copies pimpl
SharedLazyCopy(h, h2) ==
    /\ pimpl[h] # Null
    /\ FreeHandle(h2)
    /\ pimpl' = [pimpl EXCEPT ![h2] = pimpl[h]]
    /\ group' = [group EXCEPT ![h2] = group[h]]
    /\ last' = NoCall
    /\ UNCHANGED <<kind, nstorage, storage, counter, calls, fails, throws,
                   origin, initial, assigned, produced>>

\* the non-const get_value() that pimpl->get_value() selects
SharedLazy_pimpl_path == "get_value"

\* a get_value that keeps returning what the evaluation produced, whatever
\* the object holds by now
SharedLazy_get_value_snapshot(h) ==
    /\ pimpl[h] # Null
    /\ IF produced[pimpl[h]] # NoValue
       THEN /\ last' = [NoCall EXCEPT !.op = "get_value", !.inst = pimpl[h],
                                      !.via = "handle",
                                      !.ret = produced[pimpl[h]]]
            /\ UNCHANGED <<kind, nstorage, storage, counter, calls, fails,
                           throws, origin, initial, assigned, produced>>
       ELSE Deref(pimpl[h], SharedLazy_pimpl_path, "handle")
    /\ UNCHANGED <<pimpl, group>>

\* SharedLazy::operator* / SharedLazy::get_value: pimpl->get_value()
SharedLazy_get_value(h) ==
    /\ pimpl[h] # Null
    /\ Deref(pimpl[h], SharedLazy_pimpl_path, "handle")
    /\ UNCHANGED <<pimpl, group>>

\* an isEvaluated() that answers by forcing the value: pimpl->get_value()
SharedLazy_isEvaluated_forces(h) ==
    /\ pimpl[h] # Null
    /\ \E o \in do_deref(pimpl[h], SharedLazy_pimpl_path) :
          /\ ~o.threw
          /\ nstorage' = IF kind[pimpl[h]] = "NotLazy"
                         THEN [nstorage EXCEPT ![pimpl[h]] = o.storage]
                         ELSE nstorage
          /\ storage' = IF kind[pimpl[h]] = "VariantLazy"
                        THEN [storage EXCEPT ![pimpl[h]] = o.storage]
                        ELSE storage
          /\ counter' = o.counter
          /\ calls' = [calls EXCEPT ![pimpl[h]] = IF o.invoked THEN @ + 1 ELSE @]
          /\ produced' = [produced EXCEPT
                            ![pimpl[h]] = IF o.invoked THEN o.ret ELSE @]
    /\ last' = [NoCall EXCEPT !.op = "isEvaluated", !.inst = pimpl[h],
                              !.via = "handle", !.flag = TRUE]
    /\ UNCHANGED <<kind, pimpl, group, fails, throws, origin, initial, assigned>>

\* SharedLazy::isEvaluated: pimpl->isEvaluated()
SharedLazy_isEvaluated(h) ==
    /\ pimpl[h] # Null
    /\ last' = [NoCall EXCEPT !.op = "isEvaluated",
                              !.inst = pimpl[h], !.via = "handle",
                              !.flag = isEvaluated(pimpl[h])]
    /\ UNCHANGED <<kind, nstorage, storage, pimpl, group, counter, calls, fails, throws,
                   origin, initial, assigned, produced>>

\* std::make_shared<NotLazy<int>>(t): the one object the handles share
make_shared_NotLazy(t) ==
    /\ \A k \in Inst : kind[k] = "none"
    /\ \E i \in Inst : NotLazy(i, t)

\* std::make_shared<VariantLazy<int>>(evaluator)
make_shared_VariantLazy(evaluator) ==
    /\ \A k \in Inst : kind[k] = "none"
    /\ \E i \in Inst : VariantLazy(i, evaluator)

\* ------------------------------------------- std::shared_ptr ownership
\* use_count[i] is the count in the control block of object i; ptr[i] says
\* that the caller still holds the shared_ptr that make_shared returned.
Live(i) == kind[i] \in {"NotLazy", "VariantLazy"}

\* the owners of object i: the handles whose pimpl is i, and the caller's ptr
Owners(i) ==
    Cardinality({h \in Handles : pimpl[h] = i}) + (IF ptr[i] THEN 1 ELSE 0)

\* ~shared_ptr(): the count drops, and the owner that drops it to zero
\* deletes the object
Release(i) ==
    /\ use_count' = [use_count EXCEPT ![i] = @ - 1]
    /\ kind' = IF use_count[i] = 1 THEN [kind EXCEPT ![i] = "freed"] ELSE kind

\* auto ptr = std::make_shared<VariantLazy<int>>(evaluator)
own_make_shared(i, evaluator) ==
    /\ \A k \in Inst : kind[k] = "none"
    /\ VariantLazy(i, evaluator)
    /\ ptr' = [ptr EXCEPT ![i] = TRUE]
    /\ use_count' = [use_count EXCEPT ![i] = 1]
    /\ UNCHANGED conc

\* SharedLazy<int>(ptr): the parameter is a copy of the caller's ptr, which
\* is then moved into pimpl
own_SharedLazy_copy(h, i) ==
    /\ ptr[i]
    /\ SharedLazy(h, i)
    /\ use_count' = [use_count EXCEPT ![i] = @ + 1]
    /\ UNCHANGED <<ptr, conc>>

\* SharedLazy<int>(std::move(ptr)), or a temporary as in the test: the
\* caller's reference becomes the handle's
own_SharedLazy_move(h, i) ==
    /\ ptr[i]
    /\ SharedLazy(h, i)
    /\ ptr' = [ptr EXCEPT ![i] = FALSE]
    /\ UNCHANGED <<use_count, conc>>

\* a handle copy that takes no reference of its own
own_SharedLazyCopy_borrows(h, h2) ==
    /\ SharedLazyCopy(h, h2)
    /\ UNCHANGED <<own, conc>>

\* the copy constructor of SharedLazy copies pimpl: one more owner
own_SharedLazyCopy(h, h2) ==
    /\ SharedLazyCopy(h, h2)
    /\ use_count' = [use_count EXCEPT ![pimpl[h]] = @ + 1]
    /\ UNCHANGED <<ptr, conc>>

\* ~SharedLazy(): the implicit destructor destroys pimpl
SharedLazy_destroy(h) ==
    /\ pimpl[h] # Null
    /\ pimpl' = [pimpl EXCEPT ![h] = Null]
    /\ group' = [group EXCEPT ![h] = Null]
    /\ Release(pimpl[h])
    /\ last' = NoCall
    /\ UNCHANGED <<nstorage, storage, counter, calls, fails, throws, origin,
                   initial, assigned, produced, ptr, conc>>

\* the caller's ptr goes out of scope
ptr_reset(i) ==
    /\ ptr[i]
    /\ ptr' = [ptr EXCEPT ![i] = FALSE]
    /\ Release(i)
    /\ last' = NoCall
    /\ UNCHANGED <<nstorage, storage, pimpl, group, counter, calls, fails,
                   throws, origin, initial, assigned, produced, conc>>

\* --------------------------------------- do_deref, statement by statement
\* Two threads inside VariantLazy::do_deref of one object are not ordered by
\* anything: each statement below is one step, and the steps interleave.

\* another thread is between its test of the tag of object i and its store
InWindow(t, i) ==
    \E u \in Threads \ {t} :
        thread[u].obj = i /\ thread[u].at \in {"invoke", "store"}

\* if (!isEvaluated())
t_check(t, i) ==
    /\ thread[t].at = "idle"
    /\ kind[i] = "VariantLazy"
    /\ IF ~VariantLazy_isEvaluated(storage[i])
       THEN /\ thread' = [thread EXCEPT ![t] = [Idle EXCEPT !.at = "invoke", !.obj = i]]
            /\ overlapped' = (overlapped \/ InWindow(t, i))
       ELSE /\ thread' = [thread EXCEPT ![t] = [Idle EXCEPT !.at = "return", !.obj = i]]
            /\ UNCHANGED overlapped
    /\ UNCHANGED <<kind, nstorage, storage, pimpl, group, counter, last, calls,
                   fails, throws, origin, initial, assigned, produced, own>>

\* std::get<evaluator_type>(storage)(): the right-hand side of the assignment.
\* When another thread has stored a value since the test, the access races
\* with that store: std::get throws bad_variant_access, or the behaviour is
\* undefined (the thread is then lost, at "undefined").
t_invoke(t) ==
    /\ thread[t].at = "invoke"
    /\ IF VariantLazy_isEvaluated(storage[thread[t].obj])
       THEN /\ \E outcome \in {"idle", "undefined"} :
                 thread' = [thread EXCEPT ![t] = [Idle EXCEPT !.at = outcome]]
            /\ last' = [NoCall EXCEPT !.op = "get_value", !.inst = thread[t].obj,
                                      !.via = "object", !.threw = TRUE]
            /\ UNCHANGED <<counter, calls, fails, throws>>
       ELSE \E o \in Invoke(get_evaluator_alt(storage[thread[t].obj]), counter,
                            throws < MaxFails) :
               /\ counter' = o.counter
               /\ calls' = [calls EXCEPT ![thread[t].obj] = @ + 1]
               /\ fails' = [fails EXCEPT
                              ![thread[t].obj] = IF o.threw THEN @ + 1 ELSE @]
               /\ throws' = IF o.threw THEN throws + 1 ELSE throws
               /\ IF o.threw
                  THEN /\ thread' = [thread EXCEPT ![t] = Idle]
                       /\ last' = [NoCall EXCEPT
                                     !.op = "get_value", !.inst = thread[t].obj,
                                     !.via = "object", !.threw = TRUE,
                                     !.invoked = TRUE]
                  ELSE /\ thread' = [thread EXCEPT ![t].at = "store",
                                                   ![t].tmp = o.ret]
                       /\ UNCHANGED last
    /\ UNCHANGED <<kind, nstorage, storage, pimpl, group, origin, initial,
                   assigned, produced, own, overlapped>>

\* a store that is left out: the result is returned but not kept
t_store_skips(t) ==
    /\ thread[t].at = "store"
    /\ thread' = [thread EXCEPT ![t].at = "return"]
    /\ UNCHANGED <<kind, nstorage, storage, pimpl, group, counter, last, calls,
                   fails, throws, origin, initial, assigned, produced, own,
                   overlapped>>

\* storage = <the evaluator's result>
t_store(t) ==
    /\ thread[t].at = "store"
    /\ storage' = [storage EXCEPT
                     ![thread[t].obj] = VariantAssign(@, thread[t].tmp)]
    /\ produced' = [produced EXCEPT ![thread[t].obj] = thread[t].tmp]
    /\ thread' = [thread EXCEPT ![t].at = "return"]
    /\ UNCHANGED <<kind, nstorage, pimpl, group, counter, last, calls, fails,
                   throws, origin, initial, assigned, own, overlapped>>

\* return std::get<value_type>(storage): a reference to what storage holds now
t_return(t) ==
    /\ thread[t].at = "return"
    /\ last' = [NoCall EXCEPT
                  !.op = "get_value", !.inst = thread[t].obj, !.via = "object",
                  !.ret = get_value_alt(storage[thread[t].obj]),
                  !.invoked = (thread[t].tmp # NoValue)]
    /\ thread' = [thread EXCEPT ![t] = Idle]
    /\ UNCHANGED <<kind, nstorage, storage, pimpl, group, counter, calls, fails,
                   throws, origin, initial, assigned, produced, own, overlapped>>

\* ------------------------------------------------------- specifications
\* Objects used directly: constructed, copied, read, tested and assigned.
Next ==
    \/ \E i \in Inst, t \in Values : NotLazy(i, t) /\ UNCHANGED <<own, conc>>
    \/ \E i \in Inst, p \in Producers :
            VariantLazy(i, p) /\ UNCHANGED <<own, conc>>
    \/ \E i, j \in Inst : VariantLazyCopy(i, j) /\ UNCHANGED <<own, conc>>
    \/ \E i \in Inst, path \in Paths :
            get_value(i, path) /\ UNCHANGED <<own, conc>>
    \/ \E i \in Inst : isEvaluatedCall(i) /\ UNCHANGED <<own, conc>>
    \/ \E i \in Inst, v \in Values : reassign(i, v) /\ UNCHANGED <<own, conc>>

Spec == Init /\ [][Next]_vars

\* One object owned by a shared_ptr, the SharedLazy handles on it and their
\* copies; the caller may keep the pointer and use the object directly.
NextShared ==
    \/ \E t \in Values : make_shared_NotLazy(t) /\ UNCHANGED <<own, conc>>
    \/ \E p \in Producers :
            make_shared_VariantLazy(p) /\ UNCHANGED <<own, conc>>
    \/ \E h \in Handles, i \in Inst : SharedLazy(h, i) /\ UNCHANGED <<own, conc>>
    \/ \E h, h2 \in Handles : SharedLazyCopy(h, h2) /\ UNCHANGED <<own, conc>>
    \/ \E h \in Handles : SharedLazy_get_value(h) /\ UNCHANGED <<own, conc>>
    \/ \E h \in Handles : SharedLazy_isEvaluated(h) /\ UNCHANGED <<own, conc>>
    \/ \E i \in Inst, path \in Paths :
            get_value(i, path) /\ UNCHANGED <<own, conc>>
    \/ \E i \in Inst : isEvaluatedCall(i) /\ UNCHANGED <<own, conc>>
    \/ \E i \in Inst, v \in Values : reassign(i, v) /\ UNCHANGED <<own, conc>>

SpecShared == Init /\ [][NextShared]_vars

\* One VariantLazy and the threads that call get_value/operator* on it,
\* directly or each through its own SharedLazy copy, with no lock.
NextConc ==
    \/ \E p \in Producers :
            make_shared_VariantLazy(p) /\ UNCHANGED <<own, conc>>
    \/ \E t \in Threads, i \in Inst : t_check(t, i)
    \/ \E t \in Threads : t_invoke(t)
    \/ \E t \in Threads : t_store(t)
    \/ \E t \in Threads : t_return(t)

SpecConc == Init /\ [][NextConc]_vars

\* The object made by make_shared, the handles that own it, and the
\* destructors of the handles and of the caller's pointers.
NextOwn ==
    \/ \E i \in Inst, p \in Producers : own_make_shared(i, p)
    \/ \E h \in Handles, i \in Inst : own_SharedLazy_copy(h, i)
    \/ \E h \in Handles, i \in Inst : own_SharedLazy_move(h, i)
    \/ \E h, h2 \in Handles : own_SharedLazyCopy(h, h2)
    \/ \E h \in Handles : SharedLazy_get_value(h) /\ UNCHANGED <<own, conc>>
    \/ \E h \in Handles : SharedLazy_isEvaluated(h) /\ UNCHANGED <<own, conc>>
    \/ \E h \in Handles : SharedLazy_destroy(h)
    \/ \E i \in Inst : ptr_reset(i)

SpecOwn == Init /\ [][NextOwn]_vars

\* ------------------------------------------------------------ properties
\* the call made last was a get_value/operator* on object i that returned
Returned(i) == last.op = "get_value" /\ last.inst = i /\ ~last.threw

\* C1: a VariantLazy whose evaluator never threw and that was never assigned
\* to: whenever a get_value/operator* on it has returned, its evaluator has
\* been invoked at most once, exactly once if it was constructed from the
\* evaluator (a copy of an evaluated object never invokes it), and the call
\* returned what that one invocation returned, which the object still holds.
C1_EvaluatedOnce ==
    \A i \in Inst :
        (kind[i] = "VariantLazy" /\ fails[i] = 0 /\ assigned[i] = NoValue
         /\ Returned(i))
        => /\ calls[i] <= 1
           /\ origin[i] = "evaluator" => calls[i] = 1
           /\ calls[i] = 1 => last.ret = produced[i]
           /\ isEvaluated(i) /\ Held(i) = last.ret

\* a second get_value on a counting object: answered from the cache
C1_Witness ==
    \E i \in Inst :
        /\ kind[i] = "VariantLazy" /\ origin[i] = "evaluator"
        /\ fails[i] = 0 /\ assigned[i] = NoValue
        /\ Returned(i) /\ ~last.invoked
        /\ calls[i] = 1 /\ last.ret = counter /\ counter >= 1

\* C2 as stated: over the lifetime of one object, whatever the calls and
\* whether or not an invocation throws, the evaluator is invoked at most once.
C2_AtMostOnce == \A i \in Inst : calls[i] <= 1

\* C2 amended: the evaluator of one object returns at most once, and no call
\* invokes it once the object is evaluated; each invocation that throws
\* leaves the object unevaluated and is followed by another on the next access.
C2_AtMostOneSuccess ==
    [][\A i \in Inst :
          /\ calls'[i] - fails'[i] <= 1
          /\ calls'[i] > fails'[i] => isEvaluated(i)'
          /\ isEvaluated(i) => calls'[i] = calls[i]]_vars

\* an evaluator that threw, then returned, and a later access from the cache
C2_Witness ==
    \E i \in Inst :
        /\ fails[i] >= 1 /\ calls[i] = fails[i] + 1
        /\ Returned(i) /\ ~last.invoked

\* C3: from an operator= with value v on any object, evaluated or not, until
\* the next operator= on it: isEvaluated() is true, the object holds v and
\* every get_value/operator* returns v.
C3_ReassignHolds ==
    \A i \in Inst :
        assigned[i] # NoValue
        => /\ isEvaluated(i)
           /\ Held(i) = assigned[i]
           /\ (last.op = "get_value" /\ last.inst = i)
                => ~last.threw /\ ~last.invoked /\ last.ret = assigned[i]
           /\ (last.op = "isEvaluated" /\ last.inst = i) => last.flag

\* a VariantLazy assigned to before any access, then read
C3_Witness ==
    \E i \in Inst :
        /\ kind[i] = "VariantLazy" /\ calls[i] = 0 /\ origin[i] = "evaluator"
        /\ assigned[i] # NoValue /\ Returned(i) /\ last.ret = assigned[i]

\* C6: a get_value/operator* whose evaluator throws leaves by that exception
\* and changes nothing in the object: it still holds the same evaluator and
\* isEvaluated() is still false; a get_value on an unevaluated VariantLazy
\* always invokes the evaluator, so the next one tries again; and a
\* get_value makes the object evaluated only by an invocation that returned.
C6_ThrowKeepsEvaluator ==
    [][\A i \in Inst :
          (last'.op = "get_value" /\ last'.inst = i /\ kind[i] = "VariantLazy")
          => /\ last'.threw <=> fails'[i] = fails[i] + 1
             /\ last'.threw
                  => /\ storage'[i] = storage[i]
                     /\ storage'[i].fn \in Producers
                     /\ ~isEvaluated(i)'
             /\ ~isEvaluated(i) => calls'[i] = calls[i] + 1 /\ last'.invoked
             /\ (~isEvaluated(i) /\ isEvaluated(i)')
                  => /\ ~last'.threw /\ fails'[i] = fails[i]
                     /\ Held(i)' = last'.ret /\ produced'[i] = last'.ret]_vars

\* the state right after a throw: the evaluator is still there
C6_Witness ==
    \E i \in Inst :
        /\ last.op = "get_value" /\ last.inst = i /\ last.threw
        /\ fails[i] = 1 /\ calls[i] = 1
        /\ storage[i] = HoldsEvaluator("counter")

\* C7: a NotLazy is evaluated from its construction on and stays so after any
\* get_value, operator* and operator=; until the first operator= it holds,
\* and get_value returns, the constructor's value; it never runs an evaluator.
C7_NotLazyAlwaysEvaluated ==
    \A i \in Inst :
        kind[i] = "NotLazy"
        => /\ isEvaluated(i)
           /\ calls[i] = 0
           /\ assigned[i] = NoValue => nstorage[i] = initial[i]
           /\ (last.op = "get_value" /\ last.inst = i)
                => /\ ~last.threw /\ ~last.invoked
                   /\ last.ret = nstorage[i]
           /\ (last.op = "isEvaluated" /\ last.inst = i) => last.flag

\* NotLazy(3), never assigned to, read: 3
C7_Witness ==
    \E i \in Inst :
        /\ kind[i] = "NotLazy" /\ assigned[i] = NoValue
        /\ Returned(i) /\ last.ret = initial[i] /\ initial[i] = build_int

\* C10: VariantLazy(evaluator) only stores the evaluator: the construction
\* does not invoke it and leaves the captured counter alone, and the object
\* is unevaluated, holding that evaluator, until a get_value/operator* whose
\* evaluator returns or an operator=.
C10_ConstructionStoresOnly ==
    [][\A i \in Inst :
          /\ (kind[i] = "none" /\ kind'[i] = "VariantLazy"
              /\ origin'[i] = "evaluator")
               => /\ ~isEvaluated(i)'
                  /\ storage'[i].fn \in Producers
                  /\ storage'[i] = HoldsEvaluator(storage'[i].fn)
                  /\ calls'[i] = 0 /\ counter' = counter
          /\ (kind[i] = "VariantLazy" /\ ~isEvaluated(i) /\ isEvaluated(i)')
               => \/ last'.op = "get_value" /\ last'.inst = i /\ last'.invoked
                  \/ assigned'[i] # NoValue /\ assigned[i] = NoValue
          /\ (kind[i] = "VariantLazy" /\ ~isEvaluated(i) /\ ~isEvaluated(i)')
               => storage'[i] = storage[i]]_vars

\* a constructed VariantLazy asked isEvaluated() before any access: false
C10_Witness ==
    \E i \in Inst :
        /\ kind[i] = "VariantLazy" /\ origin[i] = "evaluator"
        /\ calls[i] = 0 /\ assigned[i] = NoValue
        /\ last.op = "isEvaluated" /\ last.inst = i /\ ~last.flag
        /\ storage[i] = HoldsEvaluator("counter") /\ counter = 0

\* handles h1 and h2 are copies of one another, directly or through copies
Copies(h1, h2) == group[h1] # Null /\ group[h1] = group[h2]

\* C4: SharedLazy handles that are copies of one another observe one cache
\* state: isEvaluated() answers the same through each, also right after the
\* copy was taken, and once a get_value/operator* through one of them has
\* returned, each of them reports evaluated and holds the value returned.
C4_CopiesShareState ==
    \A h1, h2 \in Handles :
        Copies(h1, h2)
        => /\ isEvaluated(pimpl[h1]) = isEvaluated(pimpl[h2])
           /\ Held(pimpl[h1]) = Held(pimpl[h2])
           /\ Returned(pimpl[h1])
                => isEvaluated(pimpl[h2]) /\ Held(pimpl[h2]) = last.ret

\* an evaluating access on a handle that has a copy
C4_Witness ==
    \E h1, h2 \in Handles :
        /\ h1 # h2 /\ Copies(h1, h2)
        /\ kind[pimpl[h1]] = "VariantLazy"
        /\ Returned(pimpl[h1]) /\ last.invoked
        /\ isEvaluated(pimpl[h2])

HandleStep ==
    \/ \E h \in Handles : SharedLazy_get_value(h)
    \/ \E h \in Handles : SharedLazy_isEvaluated(h)
    \/ \E h, h2 \in Handles : SharedLazyCopy(h, h2)

\* C8: the operations of a SharedLazy (get_value, operator*, isEvaluated,
\* copying) change the object behind it in one way only: a get_value or
\* operator* on an unevaluated object evaluates it.  On an evaluated object
\* they change nothing, and get_value returns the value it holds.
C8_HandleReadOnly ==
    [][HandleStep
       => \A i \in Inst :
            /\ kind'[i] = kind[i]
            /\ nstorage'[i] = nstorage[i]
            /\ storage'[i] # storage[i]
                 => /\ ~isEvaluated(i) /\ isEvaluated(i)'
                    /\ last'.op = "get_value" /\ last'.inst = i
                    /\ \E h \in Handles : pimpl[h] = i
            /\ isEvaluated(i)
                 => /\ isEvaluated(i)' /\ Held(i)' = Held(i)
                    /\ (last'.op = "get_value" /\ last'.inst = i)
                         => ~last'.threw /\ last'.ret = Held(i)]_vars

\* a read through a handle of an object that was evaluated before the read
C8_Witness ==
    \E h \in Handles :
        /\ pimpl[h] # Null /\ kind[pimpl[h]] = "VariantLazy"
        /\ Returned(pimpl[h]) /\ ~last.invoked
        /\ calls[pimpl[h]] = 1 /\ last.ret = produced[pimpl[h]]
        /\ assigned[pimpl[h]] = NoValue

\* C9: isEvaluated(), on a NotLazy, on a VariantLazy and through a
\* SharedLazy, changes nothing: it invokes no evaluator and leaves the
\* evaluated state and the stored value as they were (an unevaluated
\* VariantLazy stays unevaluated); it answers whether a value is held.
C9_IsEvaluatedPure ==
    [][last'.op = "isEvaluated"
       => /\ UNCHANGED <<kind, nstorage, storage, pimpl, counter, calls,
                         fails, throws, produced, assigned>>
          /\ last'.flag = isEvaluated(last'.inst)
          /\ ~last'.invoked /\ ~last'.threw]_vars

\* isEvaluated() through a handle on an untouched VariantLazy: false
C9_Witness ==
    \E h \in Handles :
        /\ pimpl[h] # Null /\ kind[pimpl[h]] = "VariantLazy"
        /\ last.op = "isEvaluated" /\ last.inst = pimpl[h] /\ ~last.flag
        /\ ~isEvaluated(pimpl[h]) /\ calls[pimpl[h]] = 0

\* C11: a get_value/operator* on an evaluated object (a NotLazy, a
\* VariantLazy after its first access or after an operator=) returns the
\* value the object holds, the same as the get_value before it returned,
\* and changes nothing: no storage, no evaluator call, no counter.
C11_RepeatedAccessIdempotent ==
    [][\A i \in Inst :
          (last'.op = "get_value" /\ last'.inst = i /\ isEvaluated(i))
          => /\ ~last'.threw /\ ~last'.invoked
             /\ last'.ret = Held(i)
             /\ Returned(i) => last'.ret = last.ret
             /\ UNCHANGED <<kind, nstorage, storage, counter, calls, fails,
                            throws, produced, assigned>>]_vars

\* the read that follows the evaluating read of a counting VariantLazy
C11_Witness ==
    \E i \in Inst :
        /\ kind[i] = "VariantLazy" /\ storage[i].val = counter /\ counter = 1
        /\ calls[i] = 1 /\ fails[i] = 0 /\ assigned[i] = NoValue
        /\ Returned(i) /\ ~last.invoked /\ last.ret = produced[i]

\* C12: without concurrent access the evaluator of an object returns at
\* most once and no access is undefined; the test of the tag and the store
\* are separate steps, and only when a thread finds the tag unevaluated
\* while another is between its test and its store can the evaluator be
\* invoked, and return, more than once.  The witness is such an interleaving.
C12_OnceUnlessOverlapped ==
    \A i \in Inst :
        /\ ~overlapped
             => /\ calls[i] - fails[i] <= 1
                /\ \A t \in Threads : thread[t].at # "undefined"
                /\ Cardinality({t \in Threads :
                                  thread[t].at \in {"invoke", "store"}}) <= 1
        /\ calls[i] - fails[i] >= 2 => overlapped

\* two threads, both past the test, each with a result of its own to store:
\* the counting evaluator has run twice
C12_Witness ==
    \E t, u \in Threads :
        /\ t # u
        /\ thread[t].at = "store" /\ thread[u].at = "store"
        /\ thread[t].obj = thread[u].obj
        /\ thread[t].tmp # thread[u].tmp
        /\ calls[thread[t].obj] = 2 /\ fails[thread[t].obj] = 0
        /\ counter = 2

\* C13: the object behind the handles is deleted exactly when its last
\* owning reference is released.  While a handle (or the caller's pointer)
\* references it, it is alive and the count is the number of its owners, so
\* a get_value/isEvaluated through a handle reaches a live object; once no
\* owner remains, it has been deleted.
C13_FreedWithLastOwner ==
    /\ \A h \in Handles : pimpl[h] # Null => Live(pimpl[h])
    /\ last.via = "handle" => Live(last.inst)
    /\ \A i \in Inst :
          /\ use_count[i] = Owners(i)
          /\ Live(i) <=> Owners(i) > 0
          /\ kind[i] = "freed" <=> (origin[i] # "none" /\ Owners(i) = 0)

\* an object that was evaluated through a handle, by a failed call and then
\* a call that returned, and deleted when its last owner went away
C13_Witness ==
    \E i \in Inst :
        /\ kind[i] = "freed" /\ use_count[i] = 0 /\ ~ptr[i]
        /\ calls[i] = 2 /\ fails[i] = 1 /\ produced[i] = 1
        /\ \A h \in Handles : pimpl[h] = Null

\* C14: an operator= with value v on an unevaluated VariantLazy discards the
\* pending evaluator without calling it; from then on no operation on the
\* object invokes an evaluator (its invocation count stays where it was, 0
\* if it was never accessed), the object holds no evaluator, and every
\* get_value/operator* returns the value assigned last, not a result of
\* the evaluator.
C14_ReassignDiscardsEvaluator ==
    [][\A i \in Inst :
          kind[i] = "VariantLazy"
          => /\ (~isEvaluated(i) /\ assigned'[i] # NoValue)
                  => /\ get_evaluator_alt(storage'[i]) = NoFn
                     /\ holds_alternative_value(storage'[i])
                     /\ calls'[i] = calls[i] /\ counter' = counter
             /\ assigned[i] # NoValue
                  => /\ calls'[i] = calls[i]
                     /\ get_evaluator_alt(storage'[i]) = NoFn
                     /\ (last'.op = "get_value" /\ last'.inst = i)
                          => /\ ~last'.invoked /\ ~last'.threw
                             /\ last'.ret = assigned'[i]]_vars

\* a VariantLazy built from an evaluator, assigned 5 before any access and
\* then read: the read returns 5 and no evaluator has run
C14_Witness ==
    \E i \in Inst :
        /\ kind[i] = "VariantLazy" /\ origin[i] = "evaluator"
        /\ calls[i] = 0 /\ counter = 0 /\ produced[i] = NoValue
        /\ assigned[i] = 5 /\ Returned(i) /\ last.ret = 5
        /\ get_evaluator_alt(storage[i]) = NoFn
        /\ \A j \in Inst \ {i} : kind[j] = "none"


\* C15: evaluated is monotonic: no call of get_value, operator*, isEvaluated
\* or operator=, on the object or through a SharedLazy handle, takes an
\* evaluated object back to unevaluated or gives it an evaluator again; so
\* once isEvaluated() has answered true the object stays evaluated.
C15_EvaluatedMonotonic ==
    [][\A i \in Inst :
          /\ isEvaluated(i)
               => /\ isEvaluated(i)'
                  /\ kind[i] = "VariantLazy"
                       => get_evaluator_alt(storage'[i]) = NoFn
                  /\ (last'.op = "isEvaluated" /\ last'.inst = i) => last'.flag
          /\ (last.op = "isEvaluated" /\ last.inst = i /\ last.flag)
               => isEvaluated(i) /\ isEvaluated(i)']_vars

\* a VariantLazy that was evaluated, then assigned to, and whose handle then
\* answered isEvaluated() with true
C15_Witness ==
    \E i \in Inst :
        /\ kind[i] = "VariantLazy"
        /\ produced[i] # NoValue /\ assigned[i] # NoValue
        /\ last.op = "isEvaluated" /\ last.inst = i /\ last.via = "handle"
        /\ last.flag


\* C16: in every state of single-threaded use (after the constructor, after
\* each get_value, isEvaluated and operator=, and after a get_value whose
\* evaluator threw) the storage of a VariantLazy holds exactly one of an
\* evaluator and a value, never both and never neither, and isEvaluated()
\* is true exactly when it holds a value.
C16_ExactlyOneAlternative ==
    \A i \in Inst :
        kind[i] = "VariantLazy"
        => /\ \/ /\ storage[i].alt = "evaluator"
                 /\ get_evaluator_alt(storage[i]) \in Producers
                 /\ get_value_alt(storage[i]) = NoValue
              \/ /\ storage[i].alt = "value"
                 /\ get_evaluator_alt(storage[i]) = NoFn
                 /\ get_value_alt(storage[i]) # NoValue
           /\ isEvaluated(i) <=> get_value_alt(storage[i]) # NoValue
           /\ isEvaluated(i) <=> get_evaluator_alt(storage[i]) = NoFn

\* one object still holding its evaluator after a get_value that threw,
\* next to one holding a value that its evaluator produced
C16_Witness ==
    \E i, j \in Inst :
        /\ fails[i] = 1 /\ calls[i] = 1 /\ ~isEvaluated(i)
        /\ last.inst = i /\ last.threw
        /\ kind[j] = "VariantLazy" /\ calls[j] = 1 /\ fails[j] = 0
        /\ isEvaluated(j) /\ Held(j) = produced[j]


\* the step just taken is the call of get_value/operator* on object i with
\* outcome o of its do_deref
TookOutcome(i, o) ==
    /\ IF kind[i] = "NotLazy"
       THEN nstorage'[i] = o.storage
       ELSE storage'[i] = o.storage
    /\ counter' = o.counter
    /\ last'.threw = o.threw /\ last'.ret = o.ret /\ last'.invoked = o.invoked

\* C17: operator* and get_value, const and non-const, behave alike: whatever
\* a call through one of them did (evaluator invoked or not, result cached,
\* resulting storage, value returned or exception), a call through each of
\* the other three would have done from the same state; and the const
\* forms too invoke the evaluator of an unevaluated object and, when it
\* returns, leave the object evaluated holding the value they return.
C17_PathsAgree ==
    [][last'.op = "get_value"
       => \A p \in Paths :
             \E o \in do_deref(last'.inst, p) :
                /\ TookOutcome(last'.inst, o)
                /\ ~isEvaluated(last'.inst) => o.invoked
                /\ (kind[last'.inst] = "VariantLazy" /\ ~o.threw)
                     => /\ VariantLazy_isEvaluated(o.storage)
                        /\ get_value_alt(o.storage) = o.ret]_vars

\* an access that evaluated the object at the second attempt, after an
\* attempt whose evaluator threw, and left the result cached
C17_Witness ==
    \E i \in Inst :
        /\ kind[i] = "VariantLazy" /\ Returned(i) /\ last.invoked
        /\ calls[i] = 2 /\ fails[i] = 1
        /\ isEvaluated(i) /\ Held(i) = last.ret


\* C18: a direct copy of a VariantLazy has storage of its own, initialised
\* from what the original holds at the copy: the copy step invokes nothing
\* and leaves every existing object as it was, the copy of an evaluated
\* object is evaluated with the same value and never invokes an evaluator,
\* the copy of an unevaluated one is unevaluated; afterwards a get_value or
\* an operator= changes the storage of the object it is called on only, so
\* never the original through the copy nor the copy through the original.
C18_CopyIndependent ==
    [][\A j \in Inst :
          /\ (kind[j] = "none" /\ origin'[j] = "copy")
               => /\ \E i \in Inst \ {j} :
                        /\ kind[i] = "VariantLazy"
                        /\ storage'[j] = storage[i]
                        /\ isEvaluated(j)' = isEvaluated(i)
                        /\ isEvaluated(i) => Held(j)' = Held(i)
                  /\ calls'[j] = 0 /\ calls' = calls /\ counter' = counter
                  /\ \A k \in Inst \ {j} :
                        storage'[k] = storage[k] /\ nstorage'[k] = nstorage[k]
          /\ (origin[j] = "copy" /\ isEvaluated(j) /\ calls[j] = 0)
               => calls'[j] = 0
          /\ \A k \in Inst \ {j} :
                (kind[j] # "none" /\ kind[k] # "none"
                 /\ (storage'[j] # storage[j] \/ assigned'[j] # assigned[j]
                     \/ (last'.op = "get_value" /\ last'.inst = j)))
                => /\ storage'[k] = storage[k] /\ nstorage'[k] = nstorage[k]
                   /\ isEvaluated(k)' = isEvaluated(k)
                   /\ Held(k)' = Held(k)
                   /\ calls'[k] = calls[k]]_vars

\* as in the test: the original evaluated to 3 and still holding it while
\* its copy, which never ran an evaluator, was assigned 5 and returns 5
C18_Witness ==
    \E i, j \in Inst :
        /\ origin[i] = "evaluator" /\ calls[i] = 1 /\ fails[i] = 0
        /\ assigned[i] = NoValue /\ isEvaluated(i) /\ Held(i) = build_int
        /\ origin[j] = "copy" /\ calls[j] = 0 /\ assigned[j] = 5
        /\ Returned(j) /\ last.ret = 5


\* C19: a SharedLazy handle shows the object as it is now: after an
\* operator= with value v made directly on the object that handles
\* reference, the object each of them references is evaluated and holds v,
\* and every isEvaluated() through a handle answers true and every
\* get_value/operator* through a handle returns v without invoking anything,
\* also when the object had produced, and returned, another value before.
C19_HandleSeesReassign ==
    \A h \in Handles :
        (pimpl[h] # Null /\ assigned[pimpl[h]] # NoValue)
        => /\ isEvaluated(pimpl[h])
           /\ Held(pimpl[h]) = assigned[pimpl[h]]
           /\ (last.via = "handle" /\ last.inst = pimpl[h])
                => /\ last.op = "get_value"
                        => /\ ~last.threw /\ ~last.invoked
                           /\ last.ret = assigned[pimpl[h]]
                   /\ last.op = "isEvaluated" => last.flag

\* an object with two handles that its evaluator had set to 3, then assigned
\* 5 directly, and a get_value through a handle that returned the 5
C19_Witness ==
    \E h1, h2 \in Handles :
        /\ h1 # h2 /\ pimpl[h1] # Null /\ pimpl[h1] = pimpl[h2]
        /\ kind[pimpl[h1]] = "VariantLazy"
        /\ produced[pimpl[h1]] = build_int /\ assigned[pimpl[h1]] = 5
        /\ last.op = "get_value" /\ last.via = "handle"
        /\ last.inst = pimpl[h1] /\ last.ret = 5

====
